---- MODULE Spec2Model ----
(***************************************************************************)
(* Cashbarber -> Supabase subscriber synchronisation.                      *)
(*                                                                         *)
(* Texts (names, plan labels, status labels) are sequences of one-         *)
(* character strings, so that lower(), strip() and the similarity ratio    *)
(* of difflib.SequenceMatcher are computed, not assumed.  Ratios and       *)
(* thresholds are exact rationals <<numerator, denominator>>.              *)
(***************************************************************************)
EXTENDS Integers, Sequences, FiniteSets, TLC

(***************************************************************************)
(* Bounds of the model.                                                    *)
(***************************************************************************)
MaxCandidatos == 3
MaxClientes == 2
MaxLinhas == 2
MaxStatusLen == 3

(***************************************************************************)
(* Text helpers: str.lower() and str.strip().                              *)
(***************************************************************************)
Min(a, b) == IF a <= b THEN a ELSE b

LowerChar(c) ==
    CASE c = "A" -> "a"
      [] c = "B" -> "b"
      [] c = "M" -> "m"
      [] c = "E" -> "e"
      [] OTHER -> c

lower(s) == [i \in 1..Len(s) |-> LowerChar(s[i])]

IsSpace(c) == c = " "

RECURSIVE lstrip(_)
lstrip(s) == IF s # <<>> /\ IsSpace(Head(s)) THEN lstrip(Tail(s)) ELSE s

RECURSIVE rstrip(_)
rstrip(s) ==
    IF s # <<>> /\ IsSpace(s[Len(s)]) THEN rstrip(SubSeq(s, 1, Len(s) - 1)) ELSE s

strip(s) == rstrip(lstrip(s))

\* A mutant of normalize: lower-cases but does not trim.
normalize_sem_strip(s) == lower(s)

\* nome.lower().strip(), as applied to the query and to every candidate.
normalize(s) == strip(lower(s))

(***************************************************************************)
(* difflib.SequenceMatcher(None, a, b).ratio() for short strings (no junk, *)
(* autojunk only acts on sequences of 200 or more elements).               *)
(* Ranges are half-open [lo, hi) over 1-based indices.                     *)
(***************************************************************************)
MatchingBlocks(a, b, alo, ahi, blo, bhi) ==
    { m \in (alo..(ahi - 1)) \X (blo..(bhi - 1)) \X (1..Min(ahi - alo, bhi - blo)) :
        /\ m[1] + m[3] <= ahi
        /\ m[2] + m[3] <= bhi
        /\ \A t \in 0..(m[3] - 1) : a[m[1] + t] = b[m[2] + t] }

\* The longest block; of those the one starting earliest in a, then earliest in b.
find_longest_match(a, b, alo, ahi, blo, bhi) ==
    LET S == MatchingBlocks(a, b, alo, ahi, blo, bhi) IN
    IF S = {} THEN <<alo, blo, 0>>
    ELSE CHOOSE m \in S : \A n \in S :
            \/ m[3] > n[3]
            \/ m[3] = n[3] /\ m[1] < n[1]
            \/ m[3] = n[3] /\ m[1] = n[1] /\ m[2] <= n[2]

\* Total size of the matching blocks (get_matching_blocks): the longest block,
\* then recursively the pieces to its left and to its right.
RECURSIVE matches(_, _, _, _, _, _)
matches(a, b, alo, ahi, blo, bhi) ==
    LET m == find_longest_match(a, b, alo, ahi, blo, bhi) IN
    IF m[3] = 0 THEN 0
    ELSE m[3]
         + (IF alo < m[1] /\ blo < m[2]
              THEN matches(a, b, alo, m[1], blo, m[2]) ELSE 0)
         + (IF m[1] + m[3] < ahi /\ m[2] + m[3] < bhi
              THEN matches(a, b, m[1] + m[3], ahi, m[2] + m[3], bhi) ELSE 0)

\* 2.0 * matches / (len(a) + len(b)), and 1.0 when both are empty.
ratio(a, b) ==
    IF Len(a) + Len(b) = 0 THEN <<1, 1>>
    ELSE <<2 * matches(a, b, 1, Len(a) + 1, 1, Len(b) + 1), Len(a) + Len(b)>>

RatGT(r, s) == r[1] * s[2] > s[1] * r[2]
RatGE(r, s) == r[1] * s[2] >= s[1] * r[2]

ZeroRatio == <<0, 1>>
DefaultThreshold == <<17, 20>>

(***************************************************************************)
(* ClienteSupabase and find_cliente_by_name.                               *)
(***************************************************************************)
\* SQL NULL / Python None in a text column.
NullText == <<"NULL">>

\* Python's None as the result of find_cliente_by_name.
None == [id |-> 0, nome |-> <<>>, plano_atual |-> NullText, status_assinatura |-> NullText]

\* A mutant of AcceptBest: the best candidate is returned whatever the threshold.
AcceptAlways(best_ratio, threshold) == TRUE

\* if best_ratio >= threshold
AcceptBest(best_ratio, threshold) == RatGE(best_ratio, threshold)

\* if ratio > best_ratio
IsBetter(r, best_ratio) == RatGT(r, best_ratio)

RECURSIVE FindLoop(_, _, _, _, _, _)
FindLoop(nome_busca_lower, clientes, k, best_match, best_ratio, threshold) ==
    IF k > Len(clientes)
    THEN IF AcceptBest(best_ratio, threshold) THEN best_match ELSE None
    ELSE LET cliente == clientes[k]
             nome_cliente_lower == normalize(cliente.nome)
         IN  IF nome_busca_lower = nome_cliente_lower
             THEN cliente
             ELSE LET r == ratio(nome_busca_lower, nome_cliente_lower) IN
                  IF IsBetter(r, best_ratio)
                  THEN FindLoop(nome_busca_lower, clientes, k + 1, cliente, r, threshold)
                  ELSE FindLoop(nome_busca_lower, clientes, k + 1,
                                best_match, best_ratio, threshold)

find_cliente_by_name(nome_busca, clientes, threshold) ==
    FindLoop(normalize(nome_busca), clientes, 1, None, ZeroRatio, threshold)

(***************************************************************************)
(* Texts used by the model.                                                *)
(***************************************************************************)
nAB == <<"a", "b">>
nABup == <<"A", "B", " ">>
nABC == <<"a", "b", "c">>
nABCD == <<"a", "b", "c", "d">>
nXABC == <<"x", "a", "b", "c">>
nX == <<"x">>
cABCD == <<" ", "a", "b", "c", "d">>
cBranco == <<" ", " ">>
cTotal == <<"T", "o", "t", "a", "l">>
PlanoVIP == <<"V", "I", "P">>
PlanoGold == <<"G", "o", "l", "d", " ">>
StatusEmDia == <<"E", "m", " ", "d", "i", "a">>
StatusCancelado == <<"C", "a", "n", "c", "e", "l", "a", "d", "o">>
Data1 == <<"0", "1", "/", "0", "2">>
StatusPagamentoRecusado ==
    <<"P", "a", "g", "a", "m", "e", "n", "t", "o", " ", "r", "e", "c", "u", "s", "a", "d", "o">>
StatusPendente == <<"P", "e", "n", "d", "e", "n", "t", "e">>
Ativo == <<"a", "t", "i", "v", "o">>
Inadimplente == <<"i", "n", "a", "d", "i", "m", "p", "l", "e", "n", "t", "e">>
Cancelado == <<"c", "a", "n", "c", "e", "l", "a", "d", "o">>
Pendente == <<"p", "e", "n", "d", "e", "n", "t", "e">>
Desconhecido == <<"d", "e", "s", "c", "o", "n", "h", "e", "c", "i", "d", "o">>

\* Names of the pure-matcher specification and of the customer table.
Nomes == {nAB, nABup, nABC, nABCD, nXABC, nX}
NomesTabela == {nABup, nABCD}
Thresholds == {<<0, 1>>, <<1, 2>>, DefaultThreshold, <<1, 1>>, <<3, 2>>}

\* Rows of the report table of the panel: the texts of the <td> cells of a <tr>
\* and whether the first cell carries a colspan attribute (the total row).
LinhasPossiveis ==
    { [cols |-> <<cABCD, PlanoVIP, StatusEmDia, Data1>>, colspan |-> FALSE],
      [cols |-> <<nABC, PlanoGold, StatusCancelado, Data1>>, colspan |-> FALSE],
      [cols |-> <<cBranco, PlanoVIP, StatusEmDia, Data1>>, colspan |-> FALSE],
      [cols |-> <<cTotal, <<"2">>>>, colspan |-> TRUE] }

SeqsUpTo(S, n) == UNION { [1..k -> S] : k \in 0..n }

(***************************************************************************)
(* cashbarber_extractor: extract_assinantes and extract_from_driver.       *)
(***************************************************************************)
\* Pula linha de total: len(cols) < 4 or cols[0].get('colspan')
LinhaIgnorada(row) == Len(row.cols) < 4 \/ row.colspan

\* Assinante(...).to_dict() of one row.
ToAssinante(row) ==
    [nome |-> strip(row.cols[1]), plano |-> strip(row.cols[2]),
     status |-> strip(row.cols[3]), data_criacao |-> strip(row.cols[4])]

RECURSIVE extract_assinantes(_)
extract_assinantes(rows) ==
    IF rows = <<>> THEN <<>>
    ELSE IF LinhaIgnorada(Head(rows)) THEN extract_assinantes(Tail(rows))
    ELSE <<ToAssinante(Head(rows))>> \o extract_assinantes(Tail(rows))

extract_from_driver(rows) == extract_assinantes(rows)

\* A mutant of normalize_status: the label is trimmed before the lookup.
normalize_status_trim(status) ==
    CASE strip(status) = StatusEmDia -> Ativo
      [] strip(status) = StatusPagamentoRecusado -> Inadimplente
      [] strip(status) = StatusCancelado -> Cancelado
      [] strip(status) = StatusPendente -> Pendente
      [] OTHER -> Desconhecido

\* status_map.get(status, 'desconhecido')
normalize_status(status) ==
    CASE status = StatusEmDia -> Ativo
      [] status = StatusPagamentoRecusado -> Inadimplente
      [] status = StatusCancelado -> Cancelado
      [] status = StatusPendente -> Pendente
      [] OTHER -> Desconhecido

(***************************************************************************)
(* supabase_integration: the table, get_all_clientes, update_cliente.      *)
(***************************************************************************)
\* The customer table at start: ids are the row positions, plan and status NULL.
MkTabela(nomes) ==
    [i \in 1..Len(nomes) |->
        [id |-> i, nome |-> nomes[i], plano_atual |-> NullText,
         status_assinatura |-> NullText, ultima_sincronizacao |-> NullText]]

\* ClienteSupabase(...) for row in response.data
get_all_clientes(tab) ==
    [i \in 1..Len(tab) |->
        [id |-> tab[i].id, nome |-> tab[i].nome, plano_atual |-> tab[i].plano_atual,
         status_assinatura |-> tab[i].status_assinatura]]

\* The columns of the table; the timestamp column is optional in the schema.
Colunas(tem_ts) ==
    {"id", "nome", "telefone", "plano_atual", "status_assinatura"}
        \cup (IF tem_ts THEN {"ultima_sincronizacao"} ELSE {})

\* The keys of update_data.
UpdateColunas(update_timestamp) ==
    {"plano_atual", "status_assinatura"}
        \cup (IF update_timestamp THEN {"ultima_sincronizacao"} ELSE {})

\* .update(update_data).eq('id', cliente_id).execute() raises when the service is
\* unreachable (db_ok false) or when update_data names a column the table lacks.
ExecuteOk(update_timestamp, tem_ts, db_ok) ==
    db_ok /\ UpdateColunas(update_timestamp) \subseteq Colunas(tem_ts)

\* update_cliente(cliente_id, plano, status): the default update_timestamp=True.
update_cliente_ok(tem_ts, db_ok) == ExecuteOk(TRUE, tem_ts, db_ok)

\* A mutant of UpdateRaises: a failed request is not caught by update_cliente.
UpdateRaisesNaFalha(ok) == ~ok

\* Whether update_cliente lets the exception of a failed request out: its
\* except clause catches every Exception and returns False.
UpdateRaises(ok) == FALSE

\* A mutant of NextPos: the loop skips every other record.
NextPosSalta(p) == p + 2

\* The for loop moves to the next element of assinantes_cashbarber.
NextPos(p) == p + 1

\* A mutant of StatusEnviado: the status is passed through normalize_status.
StatusEnviadoNormalizado(status) == normalize_status(status)

\* The status sync_assinantes hands to update_cliente: assinante['status'] as is.
StatusEnviado(status) == status

\* A mutant of TabelaAtualizada: the plan is written into the name column.
TabelaAtualizadaNome(tab, cliente_id, plano, status) ==
    [i \in 1..Len(tab) |->
        IF tab[i].id = cliente_id
        THEN [tab[i] EXCEPT !.nome = plano, !.status_assinatura = status,
                            !.ultima_sincronizacao = <<"n", "o", "w">>]
        ELSE tab[i]]

\* The table after a successful update: a set-fields overwrite of the row with the id.
TabelaAtualizada(tab, cliente_id, plano, status) ==
    [i \in 1..Len(tab) |->
        IF tab[i].id = cliente_id
        THEN [tab[i] EXCEPT !.plano_atual = plano, !.status_assinatura = status,
                            !.ultima_sincronizacao = <<"n", "o", "w">>]
        ELSE tab[i]]

(***************************************************************************)
(* supabase_integration: the statistics of sync_assinantes.                *)
(***************************************************************************)
NoStats ==
    [total_cashbarber |-> 0, total_supabase |-> 0, encontrados |-> 0,
     atualizados |-> 0, nao_encontrados |-> 0, erros |-> 0,
     nao_encontrados_lista |-> <<>>]

\* A mutant of InitStats: the two totals are swapped.
InitStatsTrocado(assinantes, clientes) ==
    [total_cashbarber |-> Len(clientes), total_supabase |-> Len(assinantes),
     encontrados |-> 0, atualizados |-> 0, nao_encontrados |-> 0, erros |-> 0,
     nao_encontrados_lista |-> <<>>]

InitStats(assinantes, clientes) ==
    [total_cashbarber |-> Len(assinantes), total_supabase |-> Len(clientes),
     encontrados |-> 0, atualizados |-> 0, nao_encontrados |-> 0, erros |-> 0,
     nao_encontrados_lista |-> <<>>]

\* A mutant of ChamaUpdate: the dry-run flag is not consulted.
ChamaUpdateSempre(found, dry) == found

\* if not dry_run: self.update_cliente(...)
ChamaUpdate(found, dry) == found /\ ~dry

\* A mutant of NextStats: a dry run does not count the match as updated.
NextStatsDrySemContar(st, nome, found, dry, ok) ==
    IF found
    THEN IF ~dry
         THEN IF ok
              THEN [st EXCEPT !.encontrados = @ + 1, !.atualizados = @ + 1]
              ELSE [st EXCEPT !.encontrados = @ + 1, !.erros = @ + 1]
         ELSE [st EXCEPT !.encontrados = @ + 1]
    ELSE [st EXCEPT !.nao_encontrados = @ + 1,
                    !.nao_encontrados_lista = Append(@, nome)]

\* A mutant of NextStats: an unmatched name is listed but not counted.
NextStatsSemContagem(st, nome, found, dry, ok) ==
    IF found
    THEN IF ~dry
         THEN IF ok
              THEN [st EXCEPT !.encontrados = @ + 1, !.atualizados = @ + 1]
              ELSE [st EXCEPT !.encontrados = @ + 1, !.erros = @ + 1]
         ELSE [st EXCEPT !.encontrados = @ + 1, !.atualizados = @ + 1]
    ELSE [st EXCEPT !.nao_encontrados_lista = Append(@, nome)]

\* A mutant of NextStats: a failed update is counted as updated.
NextStatsFalhaAtualizada(st, nome, found, dry, ok) ==
    IF found
    THEN [st EXCEPT !.encontrados = @ + 1, !.atualizados = @ + 1]
    ELSE [st EXCEPT !.nao_encontrados = @ + 1,
                    !.nao_encontrados_lista = Append(@, nome)]

\* The body of the loop on the statistics; ok is the result of update_cliente.
NextStats(st, nome, found, dry, ok) ==
    IF found
    THEN IF ~dry
         THEN IF ok
              THEN [st EXCEPT !.encontrados = @ + 1, !.atualizados = @ + 1]
              ELSE [st EXCEPT !.encontrados = @ + 1, !.erros = @ + 1]
         ELSE [st EXCEPT !.encontrados = @ + 1, !.atualizados = @ + 1]
    ELSE [st EXCEPT !.nao_encontrados = @ + 1,
                    !.nao_encontrados_lista = Append(@, nome)]


(***************************************************************************)
(* State.                                                                  *)
(***************************************************************************)
VARIABLES
    \* the environment: the report shown by the panel, the customer table and
    \* whether its schema has the timestamp column
    relatorio, tabela, tem_coluna_timestamp,
    \* run_sync: position, configuration, local driver, browser session, result
    pc, run, dry_run, driver, browser, exit_code,
    \* sync_assinantes: inputs, snapshot, loop position, statistics
    assinantes_data, clientes_supabase, pos, stats,
    \* history of the run: stages passed and database calls, update calls in detail
    etapas, chamadas,
    \* the outcome of the previous run of the program
    anterior,
    \* a call of find_cliente_by_name on its own, and the call before it
    m_pc, nome_busca, candidatos, threshold, achado, threshold_ant, achado_ant,
    \* a call of normalize_status on its own
    s_pc, status_bruto, status_norm

env_vars == <<relatorio, tabela, tem_coluna_timestamp>>
run_vars == <<pc, run, dry_run, driver, browser, exit_code>>
sync_vars == <<assinantes_data, clientes_supabase, pos, stats>>
hist_vars == <<etapas, chamadas, anterior>>
match_vars == <<m_pc, nome_busca, candidatos, threshold, achado, threshold_ant, achado_ant>>
status_vars == <<s_pc, status_bruto, status_norm>>
vars == <<env_vars, run_vars, sync_vars, hist_vars, match_vars, status_vars>>

NoAnterior ==
    [dry_run |-> FALSE, exit_code |-> -1, stats |-> NoStats, chamadas |-> <<>>,
     clientes |-> <<>>, assinantes |-> <<>>, tabela |-> <<>>]

MatchIdle ==
    /\ m_pc = "idle"
    /\ nome_busca = <<>>
    /\ candidatos = <<>>
    /\ threshold = DefaultThreshold
    /\ achado = None
    /\ threshold_ant = DefaultThreshold
    /\ achado_ant = None

StatusIdle ==
    /\ s_pc = "idle"
    /\ status_bruto = <<>>
    /\ status_norm = <<>>

RunStart ==
    /\ pc = "login"
    /\ driver = FALSE
    /\ browser = "none"
    /\ exit_code = -1
    /\ assinantes_data = <<>>
    /\ clientes_supabase = <<>>
    /\ pos = 0
    /\ stats = NoStats
    /\ etapas = <<>>
    /\ chamadas = <<>>

Init ==
    /\ relatorio \in SeqsUpTo(LinhasPossiveis, MaxLinhas)
    /\ tabela \in { MkTabela(ns) : ns \in SeqsUpTo(NomesTabela, MaxClientes) }
    /\ tem_coluna_timestamp \in BOOLEAN
    /\ dry_run \in BOOLEAN
    /\ run = 1
    /\ anterior = NoAnterior
    /\ RunStart
    /\ MatchIdle
    /\ StatusIdle

(***************************************************************************)
(* main.run_sync.                                                          *)
(***************************************************************************)
\* A mutant of OnException: a failure of the login does not stop the run.
OnExceptionContinua(at) == IF at = "login" THEN "navigate" ELSE "exit"

\* Where run_sync goes when the stage it is at raises: the except clause.
OnException(at) == "exit"

\* except Exception: return 1; finally: if driver: driver.quit()
Abort(browser_now) ==
    /\ pc' = OnException(pc)
    /\ exit_code' = 1
    /\ browser' = IF driver THEN "closed" ELSE browser_now
    /\ UNCHANGED driver

LoginOutcomes == {"ok", "sem_browser", "timeout_form", "sem_botao", "timeout_redirect"}

\* ETAPA 1: driver = login_cashbarber(...)
Login ==
    /\ pc = "login"
    /\ \E r \in LoginOutcomes :
        CASE r = "ok" ->
                /\ pc' = "navigate"
                /\ driver' = TRUE
                /\ browser' = "open"
                /\ etapas' = Append(etapas, "login_ok")
                /\ UNCHANGED exit_code
          [] r = "sem_browser" ->
                \* webdriver.Chrome(...) raises twice: no session was started
                /\ Abort("none")
                /\ UNCHANGED etapas
          [] r \in {"timeout_form", "sem_botao"} ->
                \* wait.until / find_element raises inside login_cashbarber: the
                \* session is open and run_sync's driver is still None
                /\ Abort("open")
                /\ UNCHANGED etapas
          [] OTHER ->
                \* TimeoutException on the redirect: driver.quit(); raise RuntimeError
                /\ Abort("closed")
                /\ UNCHANGED etapas
    /\ UNCHANGED <<env_vars, run, dry_run, sync_vars, chamadas, anterior, match_vars, status_vars>>

\* ETAPA 2: navigate_direto(driver) or navigate_to_quantidade_assinantes(driver)
Navigate ==
    /\ pc = "navigate"
    /\ \E direto \in BOOLEAN, ok \in BOOLEAN :
        IF ok
        THEN /\ pc' = "extract"
             /\ etapas' = Append(etapas, "nav_ok")
             /\ UNCHANGED <<driver, browser, exit_code>>
        ELSE /\ Abort(browser)
             /\ UNCHANGED etapas
    /\ UNCHANGED <<env_vars, run, dry_run, sync_vars, chamadas, anterior, match_vars, status_vars>>

\* ETAPA 3: assinantes_data = extract_from_driver(driver).  wait_for_table_load
\* needs a <tr> in the table body; the page may also fail to show the table.
Extract ==
    /\ pc = "extract"
    /\ \E ok \in BOOLEAN :
        IF ok /\ Len(relatorio) >= 1
        THEN /\ pc' = "sync"
             /\ assinantes_data' = extract_from_driver(relatorio)
             /\ etapas' = Append(etapas, "extract_ok")
             /\ UNCHANGED <<driver, browser, exit_code>>
        ELSE /\ Abort(browser)
             /\ UNCHANGED <<assinantes_data, etapas>>
    /\ UNCHANGED <<env_vars, run, dry_run, clientes_supabase, pos, stats, chamadas,
                   anterior, match_vars, status_vars>>

SyncStartOutcomes == {"ok", "sem_config", "fetch_falhou"}

\* ETAPA 4, entry: sync_from_data -> SupabaseIntegration() -> sync_assinantes up to
\* the loop: clientes_supabase = self.get_all_clientes(); stats = {...}
SyncStart ==
    /\ pc = "sync"
    /\ \E r \in SyncStartOutcomes :
        CASE r = "ok" ->
                /\ pc' = "loop"
                /\ clientes_supabase' = get_all_clientes(tabela)
                /\ stats' = InitStats(assinantes_data, get_all_clientes(tabela))
                /\ pos' = 1
                /\ etapas' = etapas \o <<"fetch", "fetch_ok">>
                /\ UNCHANGED <<driver, browser, exit_code>>
          [] r = "sem_config" ->
                \* SupabaseIntegration.__init__ raises before any call
                /\ Abort(browser)
                /\ UNCHANGED <<clientes_supabase, stats, pos, etapas>>
          [] OTHER ->
                \* get_all_clientes logs and re-raises
                /\ Abort(browser)
                /\ etapas' = Append(etapas, "fetch")
                /\ UNCHANGED <<clientes_supabase, stats, pos>>
    /\ UNCHANGED <<env_vars, run, dry_run, assinantes_data, chamadas, anterior, match_vars, status_vars>>

\* One iteration of: for assinante in assinantes_cashbarber
SyncRecord ==
    /\ pc = "loop"
    /\ pos <= Len(assinantes_data)
    /\ \E assinante \in {assinantes_data[pos]} :
       \E cliente \in {find_cliente_by_name(assinante.nome, clientes_supabase,
                                            DefaultThreshold)} :
       \E found \in {cliente # None}, db_ok \in BOOLEAN :
       \E ok \in {update_cliente_ok(tem_coluna_timestamp, db_ok)} :
       \E chamada \in {[id |-> cliente.id, plano |-> assinante.plano,
                         status |-> StatusEnviado(assinante.status), pos |-> pos,
                         db_ok |-> db_ok, ok |-> ok]} :
            IF ChamaUpdate(found, dry_run) /\ UpdateRaises(ok)
            THEN \* the exception leaves the loop and reaches run_sync's except
                 /\ chamadas' = Append(chamadas, chamada)
                 /\ etapas' = Append(etapas, "update")
                 /\ stats' = [stats EXCEPT !.encontrados = @ + 1]
                 /\ Abort(browser)
                 /\ UNCHANGED <<tabela, pos>>
            ELSE /\ stats' = NextStats(stats, assinante.nome, found, dry_run, ok)
                 /\ IF ChamaUpdate(found, dry_run)
                    THEN /\ chamadas' = Append(chamadas, chamada)
                         /\ etapas' = Append(etapas, "update")
                         /\ tabela' = IF ok
                                      THEN TabelaAtualizada(tabela, chamada.id,
                                                            chamada.plano, chamada.status)
                                      ELSE tabela
                    ELSE /\ db_ok
                         /\ UNCHANGED <<chamadas, etapas, tabela>>
                 /\ pos' = NextPos(pos)
                 /\ UNCHANGED <<pc, driver, browser, exit_code>>
    /\ UNCHANGED <<relatorio, tem_coluna_timestamp, run, dry_run, assinantes_data,
                   clientes_supabase, anterior, match_vars, status_vars>>

\* End of the loop: _log_final_stats, return stats; ETAPA 5: the summary,
\* return 0; finally: driver.quit()
SyncEnd ==
    /\ pc = "loop"
    /\ pos > Len(assinantes_data)
    /\ pc' = "exit"
    /\ exit_code' = 0
    /\ browser' = IF driver THEN "closed" ELSE browser
    /\ UNCHANGED <<env_vars, run, dry_run, driver, sync_vars, hist_vars, match_vars, status_vars>>

\* The program is run once more against the same panel and the table as the
\* first run left it.  Only a completed run is followed up: a run that failed
\* made no write, so a run after it is a first run again.
MainAgain ==
    /\ pc = "exit"
    /\ exit_code = 0
    /\ run = 1
    /\ run' = 2
    /\ anterior' = [dry_run |-> dry_run, exit_code |-> exit_code, stats |-> stats,
                    chamadas |-> chamadas, clientes |-> clientes_supabase,
                    assinantes |-> assinantes_data, tabela |-> tabela]
    /\ dry_run' \in BOOLEAN
    /\ pc' = "login"
    /\ driver' = FALSE
    /\ browser' = "none"
    /\ exit_code' = -1
    /\ assinantes_data' = <<>>
    /\ clientes_supabase' = <<>>
    /\ pos' = 0
    /\ stats' = NoStats
    /\ etapas' = <<>>
    /\ chamadas' = <<>>
    /\ UNCHANGED <<env_vars, match_vars, status_vars>>

Next ==
    \/ Login
    \/ Navigate
    \/ Extract
    \/ SyncStart
    \/ SyncRecord
    \/ SyncEnd
    \/ MainAgain

Spec == Init /\ [][Next]_vars

(***************************************************************************)
(* find_cliente_by_name on its own: any query, candidate list, threshold.  *)
(***************************************************************************)
MkClientes(nomes) == get_all_clientes(MkTabela(nomes))

MatchInit ==
    /\ relatorio = <<>>
    /\ tabela = <<>>
    /\ tem_coluna_timestamp = TRUE
    /\ dry_run = FALSE
    /\ run = 1
    /\ anterior = NoAnterior
    /\ RunStart
    /\ m_pc = "call"
    /\ nome_busca \in Nomes
    /\ candidatos \in { MkClientes(ns) : ns \in SeqsUpTo(Nomes, MaxCandidatos) }
    /\ threshold \in Thresholds
    /\ achado = None
    /\ threshold_ant = DefaultThreshold
    /\ achado_ant = None
    /\ StatusIdle

\* The first call.
FindCall ==
    /\ m_pc = "call"
    /\ achado' = find_cliente_by_name(nome_busca, candidatos, threshold)
    /\ m_pc' = "ret"
    /\ UNCHANGED <<env_vars, run_vars, sync_vars, hist_vars, status_vars, nome_busca, candidatos,
                   threshold, threshold_ant, achado_ant>>

\* A second call with the same query and candidates and another threshold.
FindAgain ==
    /\ m_pc = "ret"
    /\ \E t \in Thresholds :
        /\ threshold' = t
        /\ achado' = find_cliente_by_name(nome_busca, candidatos, t)
    /\ threshold_ant' = threshold
    /\ achado_ant' = achado
    /\ m_pc' = "ret2"
    /\ UNCHANGED <<env_vars, run_vars, sync_vars, hist_vars, status_vars, nome_busca, candidatos>>

MatchNext ==
    \/ FindCall
    \/ FindAgain

MatchSpec == MatchInit /\ [][MatchNext]_vars

(***************************************************************************)
(* normalize_status on its own: any status text.                           *)
(***************************************************************************)
\* The four labels of the panel.
StatusLabels == {StatusEmDia, StatusPagamentoRecusado, StatusCancelado, StatusPendente}

\* The labels written in another case, untrimmed, or replaced by other words.
StatusVariantes ==
    { <<>>,
      <<"e", "m", " ", "d", "i", "a">>,
      <<"E", "M", " ", "D", "I", "A">>,
      <<" ", "E", "m", " ", "d", "i", "a">>,
      <<"E", "m", " ", "d", "i", "a", " ">>,
      <<"E", "m", " ", " ", "d", "i", "a">>,
      <<"c", "a", "n", "c", "e", "l", "a", "d", "o">>,
      <<"C", "a", "n", "c", "e", "l", "a", "d", "o", " ">>,
      <<"C", "A", "N", "C", "E", "L", "A", "D", "O">>,
      <<"p", "e", "n", "d", "e", "n", "t", "e">>,
      <<" ", "P", "e", "n", "d", "e", "n", "t", "e">>,
      <<"p", "a", "g", "a", "m", "e", "n", "t", "o", " ", "r", "e", "c", "u", "s", "a", "d", "o">>,
      <<"P", "a", "g", "a", "m", "e", "n", "t", "o", " ", "R", "e", "c", "u", "s", "a", "d", "o">>,
      <<"P", "a", "g", "a", "m", "e", "n", "t", "o", " ", "r", "e", "c", "u", "s", "a", "d", "o", " ">>,
      <<"A", "t", "i", "v", "o">>,
      <<"a", "t", "i", "v", "o">> }

StatusChars == {"E", "m", "d", " "}

StatusInputs ==
    StatusLabels \cup StatusVariantes \cup SeqsUpTo(StatusChars, MaxStatusLen)

StatusInit ==
    /\ relatorio = <<>>
    /\ tabela = <<>>
    /\ tem_coluna_timestamp = TRUE
    /\ dry_run = FALSE
    /\ run = 1
    /\ anterior = NoAnterior
    /\ RunStart
    /\ MatchIdle
    /\ s_pc = "call"
    /\ status_bruto \in StatusInputs
    /\ status_norm = <<>>

\* The call.
NormalizeCall ==
    /\ s_pc = "call"
    /\ status_norm' = normalize_status(status_bruto)
    /\ s_pc' = "ret"
    /\ UNCHANGED <<env_vars, run_vars, sync_vars, hist_vars, match_vars, status_bruto>>

StatusNext == NormalizeCall

StatusSpec == StatusInit /\ [][StatusNext]_vars

(***************************************************************************)
(* Properties of find_cliente_by_name (checked under MatchSpec).           *)
(***************************************************************************)
Returned == m_pc \in {"ret", "ret2"}

\* The name after trimming and lower-casing, stated apart from the matcher.
Trimmed(s) == strip(lower(s))

\* Positions of the candidates whose name equals the query.
ExactIdx == { i \in 1..Len(candidatos) : Trimmed(candidatos[i].nome) = Trimmed(nome_busca) }

RatioAt(i) == ratio(Trimmed(nome_busca), Trimmed(candidatos[i].nome))

\* Positions of the candidates whose similarity ratio is the highest.
BestIdx ==
    { i \in 1..Len(candidatos) : \A j \in 1..Len(candidatos) : RatGE(RatioAt(i), RatioAt(j)) }

MinOf(S) == CHOOSE i \in S : \A j \in S : i <= j

\* C1: when some candidate's name equals the query after trimming and
\* lower-casing both, the first such candidate in list order is returned,
\* whatever the ratios of the other candidates and whatever the threshold.
C1_ExactMatchFirst ==
    (Returned /\ ExactIdx # {}) => achado = candidatos[MinOf(ExactIdx)]

\* C1 witness: the second candidate is returned as the first exact match, after a
\* candidate whose ratio passes the threshold and before another exact match.
C1_Witness ==
    /\ m_pc = "ret"
    /\ Len(candidatos) = 3
    /\ ExactIdx = {2, 3}
    /\ RatGE(RatioAt(1), threshold)
    /\ candidatos[2].nome # nome_busca
    /\ achado = candidatos[2]

\* C2: with no exact match and the best ratio strictly below the threshold the
\* result is "no match"; and a match found with a threshold is still found with
\* any lower threshold.
C2_ThresholdMonotone ==
    /\ (Returned /\ ExactIdx = {} /\ candidatos # <<>>
            /\ \A i \in BestIdx : ~RatGE(RatioAt(i), threshold))
          => achado = None
    /\ (m_pc = "ret2" /\ RatGE(threshold_ant, threshold) /\ achado_ant # None)
          => achado # None

\* C2 witness: no exact match; the first call is below its threshold and finds
\* nothing, the second call with a lower threshold finds a candidate.
C2_Witness ==
    /\ m_pc = "ret2"
    /\ ExactIdx = {}
    /\ candidatos # <<>>
    /\ RatGT(threshold_ant, threshold)
    /\ achado_ant = None
    /\ achado # None
    /\ RatGE(RatioAt(MinOf(BestIdx)), threshold)

\* C3: with no exact match, when several candidates share the highest ratio and
\* that ratio is >= threshold, the first of them in input order is returned.
C3_TieFirstInOrder ==
    (Returned /\ ExactIdx = {} /\ Cardinality(BestIdx) >= 2
        /\ RatGE(RatioAt(MinOf(BestIdx)), threshold))
      => achado = candidatos[MinOf(BestIdx)]

(***************************************************************************)
(* Properties of sync_assinantes and run_sync (checked under Spec).        *)
(***************************************************************************)
\* The pass has returned its statistics and the run has ended with code 0.
PassDone == pc = "exit" /\ exit_code = 0

\* The pass is in its loop or has returned.
InPass == pc = "loop" \/ PassDone

\* Number of scraped records handled so far.
Handled == IF pc = "loop" THEN pos - 1 ELSE IF PassDone THEN Len(assinantes_data) ELSE 0

HasMatch(i) ==
    find_cliente_by_name(assinantes_data[i].nome, clientes_supabase, DefaultThreshold) # None

MatchedIdx(n) == { i \in 1..n : HasMatch(i) }

\* Names of the records among the first n that found no match, in input order.
RECURSIVE UnmatchedNames(_)
UnmatchedNames(n) ==
    IF n = 0 THEN <<>>
    ELSE IF HasMatch(n) THEN UnmatchedNames(n - 1)
    ELSE Append(UnmatchedNames(n - 1), assinantes_data[n].nome)

Count(seq, e) == Cardinality({ i \in 1..Len(seq) : seq[i] = e })

FailedCalls(cs) == { i \in 1..Len(cs) : ~cs[i].ok }

StagesBeforeLoop == <<"login_ok", "nav_ok", "extract_ok", "fetch", "fetch_ok">>

\* C4 as stated: on an empty scraped sequence every count is zero, the unmatched
\* list is empty and no call at all is made to the database.
C4_EmptyAllZeroNoCalls ==
    (PassDone /\ assinantes_data = <<>>)
      => /\ stats = NoStats
         /\ Count(etapas, "fetch") = 0
         /\ Count(etapas, "update") = 0

\* C4 amended: on an empty scraped sequence the pass makes exactly one fetch and
\* no update call, and returns total scraped, matched, updated, unmatched and
\* errors zero, an empty unmatched list, and total customers = customers fetched.
C4_EmptyAmended ==
    ("extract_ok" \in {etapas[i] : i \in 1..Len(etapas)} /\ assinantes_data = <<>>)
      => /\ chamadas = <<>>
         /\ Count(etapas, "update") = 0
         /\ Count(etapas, "fetch") <= 1
         /\ PassDone =>
              /\ Count(etapas, "fetch") = 1
              /\ stats = [NoStats EXCEPT !.total_supabase = Len(tabela)]
              /\ clientes_supabase = get_all_clientes(tabela)

\* C4 witness: a pass over an empty scraped sequence against a non-empty table.
C4_Witness ==
    /\ PassDone
    /\ assinantes_data = <<>>
    /\ relatorio # <<>>
    /\ Len(tabela) = 2
    /\ stats.total_supabase = 2

\* C5: in a dry run update_cliente is never invoked, updated counts each matched
\* record once, and so updated = matched and errors = 0.
C5_DryRunNoUpdate ==
    dry_run =>
        /\ chamadas = <<>>
        /\ Count(etapas, "update") = 0
        /\ stats.erros = 0
        /\ stats.atualizados = stats.encontrados
        /\ InPass => stats.atualizados = Cardinality(MatchedIdx(Handled))

\* C5 witness: a finished dry run in which two records matched.
C5_Witness ==
    /\ PassDone
    /\ dry_run
    /\ stats.encontrados = 2
    /\ stats.atualizados = 2

\* A dry-run pass and a live pass over the same scraped sequence and snapshot.
DryAndLive ==
    /\ run = 2
    /\ PassDone
    /\ anterior.exit_code = 0
    /\ anterior.dry_run # dry_run
    /\ anterior.assinantes = assinantes_data
    /\ anterior.clientes = clientes_supabase

DryStats == IF dry_run THEN stats ELSE anterior.stats
LiveStats == IF dry_run THEN anterior.stats ELSE stats
LiveCalls == IF dry_run THEN anterior.chamadas ELSE chamadas

\* C6 as stated: the dry-run pass and the live pass return identical statistics
\* whatever the outcome of the live pass's update calls (here on a table that
\* has the timestamp column, so that only the outcome of the calls is at play).
C6_DryLiveIdentical ==
    (DryAndLive /\ tem_coluna_timestamp) => stats = anterior.stats

\* C6 amended: both passes return the same totals, matched and unmatched counts
\* and unmatched list; the dry run reports updated = matched and errors = 0, the
\* live pass updated + errors = matched with errors = its failed update calls;
\* the statistics are identical exactly when no live update call fails.
C6_DryLiveAmended ==
    DryAndLive =>
        /\ DryStats.total_cashbarber = LiveStats.total_cashbarber
        /\ DryStats.total_supabase = LiveStats.total_supabase
        /\ DryStats.encontrados = LiveStats.encontrados
        /\ DryStats.nao_encontrados = LiveStats.nao_encontrados
        /\ DryStats.nao_encontrados_lista = LiveStats.nao_encontrados_lista
        /\ DryStats.erros = 0
        /\ DryStats.atualizados = LiveStats.atualizados + LiveStats.erros
        /\ LiveStats.erros = Cardinality(FailedCalls(LiveCalls))
        /\ (DryStats = LiveStats) <=> (FailedCalls(LiveCalls) = {})

\* C6 witness: a dry run followed by a live pass with one update that succeeded
\* and one that failed.
C6_Witness ==
    /\ DryAndLive
    /\ ~dry_run
    /\ stats.atualizados = 1
    /\ stats.erros = 1
    /\ anterior.stats.atualizados = 2

\* C7: after a pass matched + unmatched = total scraped; the unmatched list holds
\* the names of the records without a match, once each, in input order; a live
\* pass makes as many update calls as records matched, none for an unmatched one.
C7_CountsAndList ==
    PassDone =>
        /\ stats.total_cashbarber = Len(assinantes_data)
        /\ stats.encontrados + stats.nao_encontrados = stats.total_cashbarber
        /\ stats.encontrados = Cardinality(MatchedIdx(Len(assinantes_data)))
        /\ stats.nao_encontrados_lista = UnmatchedNames(Len(assinantes_data))
        /\ Len(stats.nao_encontrados_lista) = stats.nao_encontrados
        /\ ~dry_run =>
              /\ Len(chamadas) = stats.encontrados
              /\ { chamadas[k].pos : k \in 1..Len(chamadas) }
                    = MatchedIdx(Len(assinantes_data))

\* C7 witness: a finished live pass with a matched and an unmatched record.
C7_Witness ==
    /\ PassDone
    /\ ~dry_run
    /\ stats.encontrados = 1
    /\ stats.nao_encontrados = 1
    /\ Len(chamadas) = 1
    /\ Len(stats.nao_encontrados_lista) = 1

\* C8: in a live pass a failed update increments errors and not updated, does
\* not end the pass, and the records after it are processed; at every point
\* updated + errors = matched counts the records handled so far.
C8_FailureCountedLoopGoesOn ==
    /\ InPass =>
          /\ stats.atualizados + stats.erros = stats.encontrados
          /\ stats.encontrados + stats.nao_encontrados = Handled
          /\ stats.encontrados = Cardinality(MatchedIdx(Handled))
    /\ (InPass /\ ~dry_run) =>
          /\ stats.erros = Cardinality(FailedCalls(chamadas))
          /\ stats.atualizados = Len(chamadas) - Cardinality(FailedCalls(chamadas))
    /\ (pc = "exit" /\ FailedCalls(chamadas) # {}) =>
          /\ exit_code = 0
          /\ stats.encontrados + stats.nao_encontrados = Len(assinantes_data)

\* C8 witness: a finished live pass whose first update failed and whose second,
\* for a later record, succeeded.
C8_Witness ==
    /\ PassDone
    /\ ~dry_run
    /\ Len(chamadas) = 2
    /\ ~chamadas[1].ok
    /\ chamadas[2].ok
    /\ chamadas[1].pos < chamadas[2].pos
    /\ stats.erros = 1
    /\ stats.atualizados = 1

\* C9: when the table has no timestamp column, an update of a matched customer
\* still succeeds: the missing column alone never makes update_cliente return
\* false nor increments errors.
C9_MissingTimestampColumnHarmless ==
    ~tem_coluna_timestamp =>
        /\ \A k \in 1..Len(chamadas) : chamadas[k].db_ok => chamadas[k].ok
        /\ (\A k \in 1..Len(chamadas) : chamadas[k].db_ok) => stats.erros = 0

\* C10: when login, navigation, extraction or the snapshot fetch fails, the run
\* makes no update call, reconciles no record and returns non-zero; every update
\* call comes after successful login, navigation, extraction and fetch, in order.
C10_FatalBeforeAnyWrite ==
    /\ (chamadas # <<>> \/ Count(etapas, "update") > 0
            \/ stats.encontrados + stats.nao_encontrados > 0)
          => SubSeq(etapas, 1, 5) = StagesBeforeLoop
    /\ \A k \in 1..Len(etapas) : etapas[k] = "update" => k > 5
    /\ (pc = "exit" /\ Count(etapas, "fetch_ok") = 0)
          => /\ exit_code = 1
             /\ chamadas = <<>>
             /\ stats = NoStats
    /\ exit_code = 1 => (chamadas = <<>> /\ stats = NoStats)
    /\ pc = "exit" => exit_code \in {0, 1}
    /\ PassDone => SubSeq(etapas, 1, 5) = StagesBeforeLoop

\* C10 witness: a live run that ended with code 1 when the snapshot fetch failed,
\* although records had been extracted and the table has customers.
C10_Witness ==
    /\ pc = "exit"
    /\ exit_code = 1
    /\ ~dry_run
    /\ etapas = <<"login_ok", "nav_ok", "extract_ok", "fetch">>
    /\ assinantes_data # <<>>
    /\ tabela # <<>>
    /\ chamadas = <<>>

\* The final summary of a pass: total scraped, updated, unmatched and errors.
Summary ==
    LET n == Len(assinantes_data) IN
    /\ stats.total_cashbarber = n
    /\ stats.erros = Cardinality(FailedCalls(chamadas))
    /\ stats.atualizados = IF dry_run THEN Cardinality(MatchedIdx(n))
                           ELSE Len(chamadas) - Cardinality(FailedCalls(chamadas))
    /\ stats.nao_encontrados = Len(UnmatchedNames(n))

\* C11 as stated: once extraction has succeeded, the run ends by producing the
\* final summary statistics, even if every update call fails.
C11_SummaryAfterExtraction ==
    (pc = "exit" /\ Count(etapas, "extract_ok") > 0) => (exit_code = 0 /\ Summary)

\* C11 amended: once extraction and the snapshot fetch have succeeded, no update
\* failure ends the run early or makes it fail: the run ends with code 0 and the
\* summary, the failed update calls being the errors count.
C11_SummaryAfterFetch ==
    Count(etapas, "fetch_ok") > 0 =>
        /\ pc \in {"loop", "exit"}
        /\ exit_code # 1
        /\ pc = "exit" => (exit_code = 0 /\ Summary)

\* C11 witness: a live run in which both update calls were refused by a table
\* that has the timestamp column, ended with the summary: 2 errors, 0 updated.
C11_Witness ==
    /\ PassDone
    /\ ~dry_run
    /\ tem_coluna_timestamp
    /\ Len(chamadas) = 2
    /\ \A k \in 1..2 : ~chamadas[k].db_ok
    /\ stats.erros = 2
    /\ stats.atualizados = 0
    /\ stats.total_cashbarber = 2

\* Both runs issued the same outcome to each update call they have in common.
SameOutcomes ==
    \A k \in 1..Min(Len(chamadas), Len(anterior.chamadas)) :
        chamadas[k].db_ok = anterior.chamadas[k].db_ok

\* Plan and status of every row of a table.
PlanStatus(tab) ==
    [i \in 1..Len(tab) |-> <<tab[i].id, tab[i].plano_atual, tab[i].status_assinatura>>]

\* The id matched to every scraped record against a snapshot (0: no match).
MatchIds(cs) ==
    [i \in 1..Len(assinantes_data) |->
        find_cliente_by_name(assinantes_data[i].nome, cs, DefaultThreshold).id]

\* C12: a second pass with the same scraped input, the same mode and the same
\* outcome of each update call gives the same statistics, the same matches and
\* the same sequence of update calls as the first, and leaves the plans and
\* statuses of the table as the first pass left them.
C12_SecondPassIdentical ==
    (run = 2 /\ PassDone /\ dry_run = anterior.dry_run
        /\ assinantes_data = anterior.assinantes /\ SameOutcomes)
      => /\ stats = anterior.stats
         /\ MatchIds(clientes_supabase) = MatchIds(anterior.clientes)
         /\ chamadas = anterior.chamadas
         /\ PlanStatus(tabela) = PlanStatus(anterior.tabela)

\* C12 witness: two live passes, each with a successful and a failed update; the
\* second pass read a snapshot that the writes of the first had changed.
C12_Witness ==
    /\ run = 2
    /\ PassDone
    /\ ~dry_run
    /\ ~anterior.dry_run
    /\ SameOutcomes
    /\ Len(chamadas) = 2
    /\ chamadas[1].ok
    /\ ~chamadas[2].ok
    /\ clientes_supabase # anterior.clientes
    /\ stats = anterior.stats

\* The case-sensitive lookup table of the panel's labels.
StatusTable ==
    { <<StatusEmDia, Ativo>>, <<StatusPagamentoRecusado, Inadimplente>>,
      <<StatusCancelado, Cancelado>>, <<StatusPendente, Pendente>> }

\* C13: normalize_status is total: the four labels, spelled exactly, map to
\* ativo, inadimplente, cancelado and pendente; every other text, a label in
\* another case or untrimmed and the empty text included, maps to desconhecido.
C13_StatusTotalCaseSensitive ==
    s_pc = "ret" =>
        /\ status_norm \in {Ativo, Inadimplente, Cancelado, Pendente, Desconhecido}
        /\ \A p \in StatusTable : status_bruto = p[1] => status_norm = p[2]
        /\ (\A p \in StatusTable : status_bruto # p[1]) => status_norm = Desconhecido

\* C13 witness: the label "Em dia" with a leading space is desconhecido.
C13_Witness ==
    /\ s_pc = "ret"
    /\ status_bruto = <<" ">> \o StatusEmDia
    /\ status_norm = Desconhecido

\* C14: with no exact match, a non-empty candidate list and a threshold in
\* [0, 1], 0 included, the result is a best-scoring candidate exactly when the
\* best ratio is >= threshold, and "no match" otherwise.
C14_BestIffAtLeastThreshold ==
    (Returned /\ ExactIdx = {} /\ candidatos # <<>>
        /\ RatGE(threshold, ZeroRatio) /\ RatGE(<<1, 1>>, threshold))
      => IF RatGE(RatioAt(MinOf(BestIdx)), threshold)
         THEN \E i \in BestIdx : achado = candidatos[i]
         ELSE achado = None

\* The match of the i-th scraped record against the snapshot of the pass.
SnapshotMatch(i) ==
    find_cliente_by_name(assinantes_data[i].nome, clientes_supabase, DefaultThreshold)

\* The successful update calls made for a customer.
OkCallsFor(id) == { k \in 1..Len(chamadas) : chamadas[k].id = id /\ chamadas[k].ok }

MaxOf(S) == CHOOSE i \in S : \A j \in S : j <= i

\* C15: every write of a live pass is one update call with the id of the customer
\* matched to a scraped record, in the input order of the records, with that
\* record's plan and status as scraped; a customer matched by no record is not
\* written; ids, names and phones are never written; the plan and status of a
\* customer are those of the last record matched to it whose update succeeded.
C15_WritesOnlyMatchedPlanStatus ==
    /\ UpdateColunas(TRUE) \cap {"id", "nome", "telefone"} = {}
    /\ InPass =>
        /\ \A k \in 1..Len(chamadas) :
              LET c == chamadas[k] IN
              /\ c.pos \in 1..Handled
              /\ SnapshotMatch(c.pos) # None
              /\ c.id = SnapshotMatch(c.pos).id
              /\ c.plano = assinantes_data[c.pos].plano
              /\ c.status = assinantes_data[c.pos].status
              /\ \A j \in 1..(k - 1) : chamadas[j].pos < c.pos
        /\ Len(tabela) = Len(clientes_supabase)
        /\ \A j \in 1..Len(tabela) :
              /\ tabela[j].id = clientes_supabase[j].id
              /\ tabela[j].nome = clientes_supabase[j].nome
              /\ IF OkCallsFor(tabela[j].id) = {}
                 THEN /\ tabela[j].plano_atual = clientes_supabase[j].plano_atual
                      /\ tabela[j].status_assinatura = clientes_supabase[j].status_assinatura
                 ELSE LET c == chamadas[MaxOf(OkCallsFor(tabela[j].id))] IN
                      /\ tabela[j].plano_atual = c.plano
                      /\ tabela[j].status_assinatura = c.status

\* C15 witness: two records with different plans matched the same customer; the
\* update of the first succeeded and that of the second failed, so the customer
\* has the plan and the status "Em dia" of the first; the other customer of the
\* table, matched by no record, is as it was.
C15_Witness ==
    /\ PassDone
    /\ ~dry_run
    /\ run = 1
    /\ Len(tabela) = 2
    /\ Len(chamadas) = 2
    /\ chamadas[1].id = chamadas[2].id
    /\ chamadas[1].plano # chamadas[2].plano
    /\ chamadas[1].ok
    /\ ~chamadas[2].ok
    /\ chamadas[1].status = StatusEmDia
    /\ \E j \in 1..2 :
          /\ tabela[j].id = chamadas[1].id
          /\ tabela[j].plano_atual = chamadas[1].plano
          /\ tabela[j].status_assinatura = StatusEmDia
    /\ \E j \in 1..2 : tabela[j].plano_atual = NullText

(***************************************************************************)
(* Termination of the pass: the for loop and the return run to completion. *)
(***************************************************************************)
\* ENABLED <<SyncRecord>>_vars written out: the loop has a record left.  Every
\* iteration changes pos or pc, and the iteration is defined on every record.
SyncRecordEnabled == pc = "loop" /\ pos <= Len(assinantes_data)

\* WF_vars(SyncRecord), with ENABLED replaced by the guard above: the body of
\* the for loop is sequential code and runs whenever a record is left.
SyncRecordFair == []<>~SyncRecordEnabled \/ []<><<SyncRecord>>_vars

\* The loop body and the return after the loop are not postponed for ever.
FairSpec == Spec /\ SyncRecordFair /\ WF_vars(SyncEnd)

\* C16: once the snapshot is fetched the pass terminates: each step of the loop
\* handles the next record in order, the loop is left only after the last record
\* and only by returning the statistics, in which matched + unmatched = total
\* scraped, whether the updates succeed or fail.
C16_PassTerminates ==
    /\ [][(pc = "loop" /\ pc' = "loop")
            => (pos <= Len(assinantes_data) /\ pos' = pos + 1)]_vars
    /\ [][(pc = "loop" /\ pc' # "loop")
            => (pc' = "exit" /\ exit_code' = 0 /\ pos = Len(assinantes_data) + 1
                  /\ stats' = stats)]_vars
    /\ [](PassDone =>
            /\ stats.total_cashbarber = Len(assinantes_data)
            /\ stats.encontrados + stats.nao_encontrados = stats.total_cashbarber)
    /\ (pc = "loop") ~> PassDone

\* C16 witness: a live pass over two records, one unmatched and one whose update
\* failed, has returned its statistics.
C16_Witness ==
    /\ PassDone
    /\ ~dry_run
    /\ Len(assinantes_data) = 2
    /\ stats.nao_encontrados = 1
    /\ stats.encontrados = 1
    /\ stats.erros = 1

\* A row of the report with four cells, none of them empty or blank.
LinhaCompleta(row) ==
    /\ Len(row.cols) >= 4
    /\ \A c \in 1..4 : strip(row.cols[c]) # <<>>

\* C17: every extracted record has a non-empty name, plan, status and creation
\* date after trimming; a row with an empty or blank cell among the four is
\* dropped and does not reach the pass.
C17_AllFieldsNonEmpty ==
    /\ \A i \in 1..Len(assinantes_data) :
          LET a == assinantes_data[i] IN
          /\ strip(a.nome) # <<>>
          /\ strip(a.plano) # <<>>
          /\ strip(a.status) # <<>>
          /\ strip(a.data_criacao) # <<>>
    /\ Len(assinantes_data)
          <= Cardinality({ r \in 1..Len(relatorio) : LinhaCompleta(relatorio[r]) })

\* C18: a browser session that was started is closed before run_sync returns,
\* on every path: no run ends with its session open.
C18_BrowserClosedOnReturn ==
    pc = "exit" => browser # "open"

====
